---- MODULE Spec2Model ----
(***************************************************************************)
(* Model of the forecasting pipeline of Proj_BI_Econ:                      *)
(*   src/src/dados/processadores/previsao.py  (PrevisorSeriesTemporal)     *)
(*   src/src/visualizacao/dashboard.py        (main, "Gerar Previsao")     *)
(*                                                                         *)
(* Three specifications share the variables:                               *)
(*   SpecNormalize  preparar_dados applied to a table, then to its result  *)
(*   Spec           one engine and any sequence of its operations          *)
(*   SpecDashboard / SpecResolver  the button handler of the dashboard     *)
(***************************************************************************)
EXTENDS Integers, Sequences, FiniteSets, TLC

VARIABLES
    pc,              \* position of the flow being modelled
    tabela,          \* SpecNormalize: the table given to preparar_dados
    coluna_data,     \* SpecNormalize: the date column name passed
    coluna_valor,    \* the value column name passed / resolved (None = "")
    df_preparado,    \* result of preparar_dados
    log_preparo,     \* level of the log line preparar_dados wrote
    df_repreparado,  \* SpecNormalize: preparar_dados applied to df_preparado
    entrada,         \* Spec: the table as it was handed to preparar_dados
    tipo_modelo,     \* self.tipo_modelo of the engine
    modelo,          \* self.modelo of the engine
    chamada,         \* the last engine call: its inputs, what it returned
    treinou,         \* history: some treinar call has returned True
    config,          \* the engine's seasonality and changepoint fields
    treino_tentado,  \* history: some treinar call got past the row guard
    indicador,       \* dashboard: the table and configuration of the indicator
    periodo_previsao,\* dashboard: the horizon chosen on the slider
    previsor_criado, \* dashboard: PrevisorSeriesTemporal(...) was constructed
    etapas,          \* dashboard: outcome of each stage of the forecast flow
    previsao,        \* dashboard: what prever returned
    mensagens,       \* dashboard: the st.error messages shown
    graficos,        \* dashboard: the figures shown
    hoje,            \* dashboard: datetime.now() when the table is built
    df_futuro        \* dashboard: the rows given to st.dataframe

vars == <<pc, tabela, coluna_data, coluna_valor, df_preparado, log_preparo,
          df_repreparado, entrada, tipo_modelo, modelo, chamada, treinou, config,
          treino_tentado, indicador, periodo_previsao, previsor_criado, etapas,
          previsao, mensagens, graficos, hoje, df_futuro>>
varsNormalize == <<tabela, coluna_data, coluna_valor, df_preparado, log_preparo,
                   df_repreparado, entrada>>
varsMotor == <<tipo_modelo, modelo, chamada, treinou, config, treino_tentado>>
varsPainel == <<indicador, periodo_previsao, previsor_criado, etapas, previsao,
                mensagens, graficos, hoje, df_futuro>>

(***************************************************************************)
(* Bounds of the model.                                                    *)
(***************************************************************************)
MaxRows == 3
MaxDay == 2
MaxHorizon == 2

(***************************************************************************)
(* Cells and tables.  A cell is [k, v]: k is the kind of Python value and  *)
(* v its payload (a day number for dates, the number for numbers).         *)
(*   "data" a string holding a parseable date   "ts"  a pandas Timestamp   *)
(*   "num"  a number                            "txt" any other string     *)
(*   "null" None / NaN                          "nat" NaT                  *)
(* A DataFrame is [cols, rows]: the column names in order and the rows,    *)
(* each a function from column name to cell.                               *)
(***************************************************************************)
Cell(k, v) == [k |-> k, v |-> v]
Null == Cell("null", 0)
NaT == Cell("nat", 0)
Txt == Cell("txt", 0)

DataFrame(cols, rows) == [cols |-> cols, rows |-> rows]
\* pd.DataFrame(): no columns, no rows
DataFrameVazio == DataFrame(<<>>, <<>>)

Range(s) == {s[i] : i \in DOMAIN s}
\* df.empty: any axis of length 0
empty(df) == Len(df.cols) = 0 \/ Len(df.rows) = 0
TemColuna(df, c) == c \in Range(df.cols)

\* pd.to_datetime on one cell (errors='raise' is the default): a date string
\* is parsed, a Timestamp is kept, a number is read as an epoch offset,
\* None/NaN becomes NaT, any other string raises.
ParseFalha(c) == c.k = "txt"
to_datetime(c) ==
    CASE c.k = "data" -> Cell("ts", c.v)
      [] c.k = "ts"   -> c
      [] c.k = "num"  -> Cell("ts", c.v)
      [] OTHER        -> NaT

\* isna for dropna
isna(c) == c.k \in {"null", "nat"}

\* df.dropna(subset=["ds", "y"])
dropna(rows) == SelectSeq(rows, LAMBDA r : ~isna(r.ds) /\ ~isna(r.y))

\* df.sort_values(by="ds") with the default kind='quicksort', which is not
\* stable: every arrangement of the rows that is ascending by ds is a
\* possible result.
Injective(p) == \A i, j \in DOMAIN p : p[i] = p[j] => i = j
Ascending(rows) == \A i, j \in DOMAIN rows : i < j => rows[i].ds.v <= rows[j].ds.v
Permuted(rows, p) == [i \in DOMAIN rows |-> rows[p[i]]]
\* Mutant: ascending=False.
sort_values_desc(rows) ==
    {Permuted(rows, p) : p \in {q \in [DOMAIN rows -> DOMAIN rows] :
        Injective(q) /\ \A i, j \in DOMAIN rows :
                          i < j => rows[q[i]].ds.v >= rows[q[j]].ds.v}}

sort_values(rows) ==
    {Permuted(rows, p) : p \in {q \in [DOMAIN rows -> DOMAIN rows] :
                                  Injective(q) /\ Ascending(Permuted(rows, q))}}

\* df[[coluna_data, coluna_valor]].copy() followed by rename(columns={...}).
\* Both names must be columns (KeyError otherwise); when the two names are
\* equal the rename dict holds one key and no column is called "ds", so the
\* next line raises KeyError as well.
SelecaoFalha(df, cd, cv) == ~TemColuna(df, cd) \/ ~TemColuna(df, cv) \/ cd = cv
Selecao(df, cd, cv) == [i \in DOMAIN df.rows |-> [ds |-> df.rows[i][cd], y |-> df.rows[i][cv]]]
Convertidas(rows) == [i \in DOMAIN rows |-> [ds |-> to_datetime(rows[i].ds), y |-> rows[i].y]]

Resultado(df, log) == [df |-> df, log |-> log]

\* The try block of preparar_dados (lines 69-90): any exception raised in it
\* is logged as an error and an empty DataFrame is returned.
preparar_try(df, cd, cv) ==
    IF SelecaoFalha(df, cd, cv) THEN {Resultado(DataFrameVazio, "error")}
    ELSE IF \E i \in DOMAIN df.rows : ParseFalha(df.rows[i][cd])
         THEN {Resultado(DataFrameVazio, "error")}
    ELSE {Resultado(DataFrame(<<"ds", "y">>, s), "info") :
            s \in sort_values(dropna(Convertidas(Selecao(df, cd, cv))))}

\* Mutant: the df.empty guard is missing.
preparar_dados_sem_guarda(df, cd, cv) == preparar_try(df, cd, cv)

\* PrevisorSeriesTemporal.preparar_dados: the set of results it can return,
\* each with the level of the log line written.
preparar_dados(df, cd, cv) ==
    IF empty(df) THEN {Resultado(DataFrameVazio, "warning")}
    ELSE preparar_try(df, cd, cv)

(***************************************************************************)
(* The engine, PrevisorSeriesTemporal, and the Prophet object it holds.    *)
(* self.modelo is None or a Prophet object; of the Prophet object the      *)
(* model keeps what decides the calls made on it:                          *)
(*   dates     history_dates, the distinct ds of the frame given to fit,   *)
(*             ascending (<<>> while it is None)                           *)
(*   history   the rows kept by fit (<<>> while it is None)                *)
(*   ajustado  the parameters have been estimated                          *)
(***************************************************************************)
ModeloNone == [k |-> "None", dates |-> <<>>, history |-> <<>>, ajustado |-> FALSE]
\* Prophet(...): a new object, not fit
Prophet == [k |-> "Prophet", dates |-> <<>>, history |-> <<>>, ajustado |-> FALSE]

\* The elements of a set of numbers as an ascending sequence.
SortedSeq(S) ==
    CHOOSE s \in [1..Cardinality(S) -> S] : \A i, j \in 1..Cardinality(S) : i < j => s[i] < s[j]
\* pd.Series(df['ds'].unique()).sort_values()
unique_sorted(rows) == SortedSeq({rows[i].ds.v : i \in DOMAIN rows})

Ajuste(m, raised) == [modelo |-> m, raised |-> raised]

\* Prophet.fit(df) on the object m: the set of outcomes, each the object as
\* fit leaves it and whether fit raised.  fit raises before touching the
\* object when ds or y is missing or fewer than 2 rows have a value; it
\* sets history_dates, then raises when a value is not a number; after
\* that the estimation itself succeeds or raises.
fit(m, df) ==
    IF ~TemColuna(df, "ds") \/ ~TemColuna(df, "y") THEN {Ajuste(m, TRUE)}
    ELSE LET hist == SelectSeq(df.rows, LAMBDA r : ~isna(r.y))
             m1 == [m EXCEPT !.dates = unique_sorted(df.rows)]
             m2 == [m1 EXCEPT !.history = hist]
         IN  IF Len(hist) < 2 THEN {Ajuste(m, TRUE)}
             ELSE IF \E i \in DOMAIN hist : hist[i].y.k # "num" THEN {Ajuste(m1, TRUE)}
             ELSE {Ajuste([m2 EXCEPT !.ajustado = TRUE], FALSE), Ajuste(m2, TRUE)}

\* Prophet.make_future_dataframe(periods) with the defaults freq='D' and
\* include_history=True: history_dates followed by the next `periods` days.
\* Raises ("Model has not been fit") while history_dates is None.
FuturoFalha(m) == m.dates = <<>>
make_future_dataframe(m, periods) ==
    m.dates \o [i \in 1..periods |-> m.dates[Len(m.dates)] + i]

SemPrevisao == [k |-> "None", ds |-> <<>>]
\* Prophet.predict(futuro): one row per row of futuro, in its order
Previsao(futuro) == [k |-> "DataFrame", ds |-> futuro]

\* What a call on the engine reports: the value returned, whether an
\* exception left the method, the failure logged ("" when none), whether
\* Prophet.fit was called and whether it raised, and self.modelo after.
Saida(m, ret, prev, erro, fitc, fitf) ==
    [modelo |-> m, ret |-> ret, previsao |-> prev, raised |-> FALSE, erro |-> erro,
     fit_chamado |-> fitc, fit_falhou |-> fitf]

\* Mutant: no try/except around the construction and fit of treinar.
treinar_sem_except(mod, tipo, df) ==
    IF empty(df) \/ Len(df.rows) < 2
    THEN {Saida(mod, "False", SemPrevisao, "InsufficientData", FALSE, FALSE)}
    ELSE IF tipo = "prophet"
    THEN {[Saida(f.modelo, IF f.raised THEN "False" ELSE "True", SemPrevisao,
                 IF f.raised THEN "TrainingFailure" ELSE "", TRUE, f.raised)
             EXCEPT !.raised = f.raised]
            : f \in fit(Prophet, df)}
    ELSE {Saida(mod, "False", SemPrevisao, "UnsupportedModelKind", FALSE, FALSE)}

\* Mutant: the model kind is not looked at, a Prophet model is always built.
treinar_sem_tipo(mod, tipo, df) ==
    IF empty(df) \/ Len(df.rows) < 2
    THEN {Saida(mod, "False", SemPrevisao, "InsufficientData", FALSE, FALSE)}
    ELSE {Saida(f.modelo, IF f.raised THEN "False" ELSE "True", SemPrevisao,
                IF f.raised THEN "TrainingFailure" ELSE "", TRUE, f.raised)
            : f \in fit(Prophet, df)}

\* Mutant: the row guard is off by one (len(df) < 1).
treinar_guarda_errada(mod, tipo, df) ==
    IF empty(df) \/ Len(df.rows) < 1
    THEN {Saida(mod, "False", SemPrevisao, "InsufficientData", FALSE, FALSE)}
    ELSE IF tipo = "prophet"
    THEN {Saida(f.modelo, IF f.raised THEN "False" ELSE "True", SemPrevisao,
                IF f.raised THEN "TrainingFailure" ELSE "", TRUE, f.raised)
            : f \in fit(Prophet, df)}
    ELSE {Saida(mod, "False", SemPrevisao, "UnsupportedModelKind", FALSE, FALSE)}

\* PrevisorSeriesTemporal.treinar(df) on an engine whose self.modelo is mod.
\* self.modelo is assigned the new Prophet object before fit is called on
\* it, so it stays bound to that object when fit raises.
treinar(mod, tipo, df) ==
    IF empty(df) \/ Len(df.rows) < 2
    THEN {Saida(mod, "False", SemPrevisao, "InsufficientData", FALSE, FALSE)}
    ELSE IF tipo = "prophet"
    THEN {Saida(f.modelo, IF f.raised THEN "False" ELSE "True", SemPrevisao,
                IF f.raised THEN "TrainingFailure" ELSE "", TRUE, f.raised)
            : f \in fit(Prophet, df)}
    ELSE {Saida(mod, "False", SemPrevisao, "UnsupportedModelKind", FALSE, FALSE)}

\* make_future_dataframe asks pandas for a date range of periods + 1 dates,
\* which raises when that count is negative.
PeriodoInvalido(periodos) == periodos + 1 < 0

\* Mutant: no try/except around the library calls of prever.
prever_sem_except(mod, tipo, periodos) ==
    IF mod.k = "None"
    THEN {Saida(mod, "None", SemPrevisao, "ModelNotTrained", FALSE, FALSE)}
    ELSE IF tipo = "prophet"
    THEN IF FuturoFalha(mod) \/ PeriodoInvalido(periodos) \/ ~mod.ajustado
         THEN {[Saida(mod, "None", SemPrevisao, "PredictionFailure", FALSE, FALSE)
                  EXCEPT !.raised = TRUE]}
         ELSE {Saida(mod, "DataFrame", Previsao(make_future_dataframe(mod, periodos)),
                     "", FALSE, FALSE),
               [Saida(mod, "None", SemPrevisao, "PredictionFailure", FALSE, FALSE)
                  EXCEPT !.raised = TRUE]}
    ELSE {Saida(mod, "None", SemPrevisao, "UnsupportedModelKind", FALSE, FALSE)}

\* Mutant: the except handler of prever also resets self.modelo to None.
prever_descarta_modelo(mod, tipo, periodos) ==
    IF mod.k = "None"
    THEN {Saida(mod, "None", SemPrevisao, "ModelNotTrained", FALSE, FALSE)}
    ELSE IF tipo = "prophet"
    THEN IF FuturoFalha(mod) \/ PeriodoInvalido(periodos) \/ ~mod.ajustado
         THEN {Saida(ModeloNone, "None", SemPrevisao, "PredictionFailure", FALSE, FALSE)}
         ELSE {Saida(mod, "DataFrame", Previsao(make_future_dataframe(mod, periodos)),
                     "", FALSE, FALSE),
               Saida(ModeloNone, "None", SemPrevisao, "PredictionFailure", FALSE, FALSE)}
    ELSE {Saida(mod, "None", SemPrevisao, "UnsupportedModelKind", FALSE, FALSE)}

\* Mutant: make_future_dataframe is called with include_history=False.
prever_so_futuro(mod, tipo, periodos) ==
    IF mod.k = "None"
    THEN {Saida(mod, "None", SemPrevisao, "ModelNotTrained", FALSE, FALSE)}
    ELSE IF tipo = "prophet"
    THEN IF FuturoFalha(mod) \/ PeriodoInvalido(periodos) \/ ~mod.ajustado
         THEN {Saida(mod, "None", SemPrevisao, "PredictionFailure", FALSE, FALSE)}
         ELSE {Saida(mod, "DataFrame",
                     Previsao([i \in 1..periodos |-> mod.dates[Len(mod.dates)] + i]),
                     "", FALSE, FALSE),
               Saida(mod, "None", SemPrevisao, "PredictionFailure", FALSE, FALSE)}
    ELSE {Saida(mod, "None", SemPrevisao, "UnsupportedModelKind", FALSE, FALSE)}

\* PrevisorSeriesTemporal.prever(periodos).  make_future_dataframe raises on
\* an object whose history_dates is None and predict on one whose
\* parameters were never estimated; on a fit object predict returns the
\* forecast or raises; every exception is caught and None returned.
prever(mod, tipo, periodos) ==
    IF mod.k = "None"
    THEN {Saida(mod, "None", SemPrevisao, "ModelNotTrained", FALSE, FALSE)}
    ELSE IF tipo = "prophet"
    THEN IF FuturoFalha(mod) \/ PeriodoInvalido(periodos) \/ ~mod.ajustado
         THEN {Saida(mod, "None", SemPrevisao, "PredictionFailure", FALSE, FALSE)}
         ELSE {Saida(mod, "DataFrame", Previsao(make_future_dataframe(mod, periodos)),
                     "", FALSE, FALSE),
               Saida(mod, "None", SemPrevisao, "PredictionFailure", FALSE, FALSE)}
    ELSE {Saida(mod, "None", SemPrevisao, "UnsupportedModelKind", FALSE, FALSE)}

\* plot_plotly / plot_components_plotly on the object m and a forecast:
\* they raise on an object that was not fit and on a forecast that is not a
\* DataFrame of predict; otherwise they return a figure or raise.
PlotFalha(m, prev) == ~m.ajustado \/ prev.k # "DataFrame"

\* PrevisorSeriesTemporal.plotar_previsao(previsao, titulo)
plotar_previsao(mod, tipo, prev) ==
    IF mod.k = "None"
    THEN {Saida(mod, "None", SemPrevisao, "ModelNotTrained", FALSE, FALSE)}
    ELSE IF tipo = "prophet"
    THEN IF PlotFalha(mod, prev)
         THEN {Saida(mod, "None", SemPrevisao, "PlotFailure", FALSE, FALSE)}
         ELSE {Saida(mod, "Figure", SemPrevisao, "", FALSE, FALSE),
               Saida(mod, "None", SemPrevisao, "PlotFailure", FALSE, FALSE)}
    ELSE {Saida(mod, "None", SemPrevisao, "UnsupportedModelKind", FALSE, FALSE)}

\* PrevisorSeriesTemporal.plotar_componentes(previsao)
plotar_componentes(mod, tipo, prev) ==
    IF mod.k = "None"
    THEN {Saida(mod, "None", SemPrevisao, "ModelNotTrained", FALSE, FALSE)}
    ELSE IF tipo = "prophet"
    THEN IF PlotFalha(mod, prev)
         THEN {Saida(mod, "None", SemPrevisao, "PlotFailure", FALSE, FALSE)}
         ELSE {Saida(mod, "Figure", SemPrevisao, "", FALSE, FALSE),
               Saida(mod, "None", SemPrevisao, "PlotFailure", FALSE, FALSE)}
    ELSE {Saida(mod, "None", SemPrevisao, "UnsupportedModelKind", FALSE, FALSE)}

\* PrevisorSeriesTemporal.__init__: the five configuration fields.  The
\* changepoint prior scale is kept as the text of the float.
Config(anual, semanal, diaria, modo, escala) ==
    [sazonalidade_anual |-> anual, sazonalidade_semanal |-> semanal,
     sazonalidade_diaria |-> diaria, modo_sazonalidade |-> modo,
     escala_prior_pontos_mudanca |-> escala]
\* The defaults of the constructor's parameters.
ConfigPadrao == Config(TRUE, TRUE, FALSE, "multiplicative", "0.05")
\* The initial values of the dashboard's configuration widgets.
ConfigPainel == Config(TRUE, FALSE, FALSE, "multiplicative", "0.05")
\* The engines of Spec, as constructed: one of each model kind, the
\* second with every configuration parameter given.
Construcoes ==
    {[tipo_modelo |-> "prophet", config |-> ConfigPadrao],
     [tipo_modelo |-> "arima",
      config |-> Config(FALSE, FALSE, TRUE, "additive", "0.5")]}

\* What preparar_dados reports to its caller: always a DataFrame, the one
\* of the except handler when the log line is the error.
SaidaPreparo(mod, r) ==
    Saida(mod, "DataFrame", SemPrevisao,
          IF r.log = "error" THEN "PreparationFailure" ELSE "", FALSE, FALSE)
\* The caller's table once preparar_dados has returned: the method works
\* on a copy of the two selected columns, the argument is only read.
tabela_apos(df, coluna_d, coluna_v) == df

\* The record of a call: what was called, with how many rows or periods,
\* self.modelo before it, and what it reported.
Chamada(op, linhas, dups, periodos, antes, r) ==
    [op |-> op, linhas |-> linhas, duplicadas |-> dups, periodos |-> periodos,
     modelo_antes |-> antes, ret |-> r.ret, previsao |-> r.previsao,
     raised |-> r.raised, erro |-> r.erro, fit_chamado |-> r.fit_chamado,
     fit_falhou |-> r.fit_falhou]
SemChamada ==
    Chamada("", 0, FALSE, 0, ModeloNone,
            Saida(ModeloNone, "", SemPrevisao, "", FALSE, FALSE))

\* The dashboard's variables while no forecast is being generated.
SemEtapas == [preparo |-> "", treino |-> "", previsao |-> ""]
SemIndicador == [colunas |-> <<>>, linhas |-> <<>>, hint |-> ""]
PainelParado ==
    /\ indicador = SemIndicador
    /\ periodo_previsao = 0
    /\ previsor_criado = FALSE
    /\ etapas = SemEtapas
    /\ previsao = SemPrevisao
    /\ mensagens = {}
    /\ graficos = {}
    /\ hoje = 0
    /\ df_futuro = <<>>

(***************************************************************************)
(* Inputs of SpecNormalize: raw tables with the columns "data" and         *)
(* "valor", and the empty table; column names that are and are not there.  *)
(***************************************************************************)
Dias == 1..MaxDay
CelulasData == {Cell("data", d) : d \in Dias} \cup {Txt, Null}
CelulasValor == {Cell("num", 1), Txt, Null}
LinhasBrutas == [data : CelulasData, valor : CelulasValor]
SeqAte(S, n) == UNION {[1..k -> S] : k \in 0..n}
TabelasBrutas ==
    {DataFrame(<<"data", "valor">>, rows) : rows \in SeqAte(LinhasBrutas, MaxRows)}
        \cup {DataFrameVazio}
NomesColuna == {"data", "valor", "x"}

InitNormalize ==
    /\ pc = "inicio"
    /\ tabela \in TabelasBrutas
    /\ coluna_data \in NomesColuna
    /\ coluna_valor \in NomesColuna
    /\ df_preparado = DataFrameVazio
    /\ log_preparo = "none"
    /\ df_repreparado = DataFrameVazio
    /\ entrada = DataFrameVazio
    /\ tipo_modelo = "prophet"
    /\ modelo = ModeloNone
    /\ chamada = SemChamada
    /\ treinou = FALSE
    /\ config = ConfigPadrao
    /\ treino_tentado = FALSE
    /\ PainelParado

\* previsor.preparar_dados(tabela, coluna_data, coluna_valor)
Preparar ==
    /\ pc = "inicio"
    /\ \E r \in preparar_dados(tabela, coluna_data, coluna_valor) :
        /\ df_preparado' = r.df
        /\ log_preparo' = r.log
    /\ pc' = "preparado"
    /\ UNCHANGED <<tabela, coluna_data, coluna_valor, df_repreparado, entrada>>
    /\ UNCHANGED varsMotor
    /\ UNCHANGED varsPainel

\* previsor.preparar_dados(df_preparado, "ds", "y"): the result normalized again
Repreparar ==
    /\ pc = "preparado"
    /\ \E r \in preparar_dados(df_preparado, "ds", "y") :
        /\ df_repreparado' = r.df
        /\ log_preparo' = r.log
    /\ pc' = "repreparado"
    /\ UNCHANGED <<tabela, coluna_data, coluna_valor, df_preparado, entrada>>
    /\ UNCHANGED varsMotor
    /\ UNCHANGED varsPainel

NextNormalize == Preparar \/ Repreparar

SpecNormalize == InitNormalize /\ [][NextNormalize]_vars

(***************************************************************************)
(* Spec: one engine, built with either model kind, and any sequence of     *)
(* preparar_dados, treinar, prever, plotar_previsao and plotar_componentes *)
(* on it.                                                                  *)
(***************************************************************************)
SeriesCelulasY == {Cell("num", 1), Txt}
LinhasSerie == [ds : {Cell("ts", d) : d \in Dias}, y : SeriesCelulasY]
\* Series as preparar_dados returns them: columns ds and y, ascending by ds.
Series ==
    {DataFrame(<<"ds", "y">>, rows) :
        rows \in {r \in SeqAte(LinhasSerie, MaxRows) : Ascending(r)}}
\* A table that was never prepared: it has no ds and no y column.
TabelaNaoPreparada ==
    DataFrame(<<"data", "valor">>,
              <<[data |-> Cell("data", 1), valor |-> Cell("num", 1)],
                [data |-> Cell("data", 2), valor |-> Cell("num", 1)]>>)
EntradasTreino == Series \cup {DataFrameVazio, TabelaNaoPreparada}
Horizontes == 1..MaxHorizon
\* The horizons handed to the engine directly: any integer, the ones the
\* date range rejects included.
HorizontesMotor == (0 - 2)..MaxHorizon
\* The tables handed to the engine's preparar_dados: the empty one and a
\* raw table of two parseable rows.
EntradasPreparo == {DataFrameVazio, TabelaNaoPreparada}
NomesPreparo == {"data", "x"}
EntradasPlot == {SemPrevisao, Previsao(<<1, 2>>)}
TemDuplicadas(df) ==
    \E i, j \in DOMAIN df.rows :
        i # j /\ TemColuna(df, "ds") /\ df.rows[i].ds = df.rows[j].ds

Init ==
    /\ pc = "motor"
    /\ tabela = DataFrameVazio
    /\ coluna_data = ""
    /\ coluna_valor = ""
    /\ df_preparado = DataFrameVazio
    /\ log_preparo = "none"
    /\ df_repreparado = DataFrameVazio
    /\ entrada = DataFrameVazio
    /\ \E c \in Construcoes : tipo_modelo = c.tipo_modelo /\ config = c.config
    /\ modelo = ModeloNone
    /\ chamada = SemChamada
    /\ treinou = FALSE
    /\ treino_tentado = FALSE
    /\ PainelParado

\* previsor.preparar_dados(df, coluna_data, "valor") on the engine.  The
\* method reads no field of the engine and assigns none; what it returned
\* is kept in the record of the call.
PrepararDados ==
    /\ pc = "motor"
    /\ \E df \in EntradasPreparo : \E cd \in NomesPreparo :
       \E r \in preparar_dados(df, cd, "valor") :
        /\ entrada' = df
        /\ tabela' = tabela_apos(df, cd, "valor")
        /\ chamada' = Chamada("preparar_dados", Len(r.df.rows), FALSE, 0, modelo,
                              SaidaPreparo(modelo, r))
    /\ UNCHANGED <<pc, coluna_data, coluna_valor, df_preparado, log_preparo,
                   df_repreparado>>
    /\ UNCHANGED <<tipo_modelo, modelo, treinou, config, treino_tentado>>
    /\ UNCHANGED varsPainel

\* previsor.treinar(df)
Treinar ==
    /\ pc = "motor"
    /\ \E df \in EntradasTreino : \E r \in treinar(modelo, tipo_modelo, df) :
        /\ modelo' = r.modelo
        /\ chamada' = Chamada("treinar", Len(df.rows), TemDuplicadas(df), 0, modelo, r)
        /\ treinou' = (treinou \/ r.ret = "True")
        /\ treino_tentado' = (treino_tentado \/ r.erro # "InsufficientData")
    /\ UNCHANGED <<pc, tipo_modelo, config>>
    /\ UNCHANGED varsNormalize
    /\ UNCHANGED varsPainel

\* previsor.prever(periodos)
Prever ==
    /\ pc = "motor"
    /\ \E h \in HorizontesMotor : \E r \in prever(modelo, tipo_modelo, h) :
        /\ modelo' = r.modelo
        /\ chamada' = Chamada("prever", 0, FALSE, h, modelo, r)
    /\ UNCHANGED <<pc, tipo_modelo, treinou, config, treino_tentado>>
    /\ UNCHANGED varsNormalize
    /\ UNCHANGED varsPainel

\* previsor.plotar_previsao(previsao, titulo)
PlotarPrevisao ==
    /\ pc = "motor"
    /\ \E prev \in EntradasPlot : \E r \in plotar_previsao(modelo, tipo_modelo, prev) :
        /\ modelo' = r.modelo
        /\ chamada' = Chamada("plotar_previsao", 0, FALSE, 0, modelo, r)
    /\ UNCHANGED <<pc, tipo_modelo, treinou, config, treino_tentado>>
    /\ UNCHANGED varsNormalize
    /\ UNCHANGED varsPainel

\* previsor.plotar_componentes(previsao)
PlotarComponentes ==
    /\ pc = "motor"
    /\ \E prev \in EntradasPlot : \E r \in plotar_componentes(modelo, tipo_modelo, prev) :
        /\ modelo' = r.modelo
        /\ chamada' = Chamada("plotar_componentes", 0, FALSE, 0, modelo, r)
    /\ UNCHANGED <<pc, tipo_modelo, treinou, config, treino_tentado>>
    /\ UNCHANGED varsNormalize
    /\ UNCHANGED varsPainel

Next == PrepararDados \/ Treinar \/ Prever \/ PlotarPrevisao \/ PlotarComponentes

Spec == Init /\ [][Next]_vars

(***************************************************************************)
(* Claims about the engine, checked under Spec.                            *)
(***************************************************************************)
\* C1 (as claimed): when Prophet.fit raises inside treinar on a series of at
\* least 2 rows, treinar returns False without raising and self.modelo is
\* what it was before the call.
C1_FailedFitLeavesModelUnbound ==
    (chamada.op = "treinar" /\ chamada.linhas >= 2 /\ chamada.fit_falhou) =>
        /\ chamada.ret = "False"
        /\ ~chamada.raised
        /\ modelo = chamada.modelo_antes

\* C2: while no treinar call has returned True, prever returns None, and
\* raises nothing, for every horizon, also after treinar calls that failed.
C2_PredictBeforeTrainReturnsNone ==
    (chamada.op = "prever" /\ ~treinou) =>
        /\ chamada.ret = "None"
        /\ chamada.previsao = SemPrevisao
        /\ ~chamada.raised

\* Witness of C2: prever was called on an engine that no treinar call has
\* trained but that a failed fit left holding a Prophet object.
C2_Witness ==
    /\ chamada.op = "prever"
    /\ ~treinou
    /\ modelo.k = "Prophet"
    /\ chamada.ret = "None"

\* C3: treinar on a series of 0 rows or 1 row returns False, raises
\* nothing, never calls Prophet.fit and leaves self.modelo as it was.
C3_TooFewRowsRejected ==
    (chamada.op = "treinar" /\ chamada.linhas < 2) =>
        /\ chamada.ret = "False"
        /\ chamada.erro = "InsufficientData"
        /\ ~chamada.raised
        /\ ~chamada.fit_chamado
        /\ modelo = chamada.modelo_antes

\* Witness of C3: a 1-row series was given to an engine that held a fit
\* model, and it holds it still.
C3_Witness ==
    /\ chamada.op = "treinar"
    /\ chamada.linhas = 1
    /\ chamada.ret = "False"
    /\ modelo.ajustado

StrictlyAscending(s) == \A i, j \in DOMAIN s : i < j => s[i] < s[j]
UltimaData(m) == m.history[Len(m.history)].ds.v
NumDatas(m) == Cardinality({m.history[i].ds.v : i \in DOMAIN m.history})
\* prever has just returned a forecast; the model it used is the one the
\* last successful treinar bound, and modelo.history is the series given.
C4_Caso == chamada.op = "prever" /\ chamada.ret = "DataFrame" /\ chamada.periodos >= 1

\* C4 (as claimed): a successful treinar followed by prever(h) returns
\* exactly len(history) + h rows, ascending by timestamp, the last h of
\* them after the last historical timestamp.
C4_RowCountIsLenPlusH ==
    C4_Caso =>
        /\ Len(chamada.previsao.ds) = Len(modelo.history) + chamada.periodos
        /\ StrictlyAscending(chamada.previsao.ds)
        /\ \A i \in DOMAIN chamada.previsao.ds :
              i > Len(chamada.previsao.ds) - chamada.periodos
                  => chamada.previsao.ds[i] > UltimaData(modelo)

\* C4 (amended): prever(h) returns one row per distinct timestamp of the
\* history plus h rows, strictly ascending by timestamp, the last h of
\* them after the last historical timestamp; that is len(history) + h rows
\* exactly when the history holds no timestamp twice.
C4_RowCountIsDistinctPlusH ==
    C4_Caso =>
        /\ Len(chamada.previsao.ds) = NumDatas(modelo) + chamada.periodos
        /\ StrictlyAscending(chamada.previsao.ds)
        /\ \A i \in DOMAIN chamada.previsao.ds :
              i > Len(chamada.previsao.ds) - chamada.periodos
                  => chamada.previsao.ds[i] > UltimaData(modelo)
        /\ (Len(chamada.previsao.ds) = Len(modelo.history) + chamada.periodos)
              <=> (NumDatas(modelo) = Len(modelo.history))

\* Witness of C4: a forecast over a history that holds a timestamp twice.
C4_Witness ==
    /\ C4_Caso
    /\ chamada.periodos = 2
    /\ Len(modelo.history) = 3
    /\ NumDatas(modelo) = 2

(***************************************************************************)
(* The dashboard: the handler of the "Gerar Previsao" button in main().    *)
(* An indicator's table is kept as its columns, each with its name and     *)
(* whether its dtype is numeric, and per row the cell of the column        *)
(* "data" and the cell v that every numeric column holds; a column that    *)
(* is not numeric holds text.                                              *)
(***************************************************************************)
MsgColuna == "Nao foi possivel encontrar uma coluna de valor"
MsgTreino == "Erro ao treinar modelo de previsao."
MsgPrevisao == "Erro ao gerar previsao."

Nomes(ind) == {ind.colunas[i].nome : i \in DOMAIN ind.colunas}
Numerica(ind, c) == \E i \in DOMAIN ind.colunas :
                        ind.colunas[i].nome = c /\ ind.colunas[i].numerica
\* The DataFrame df = dados_indicadores[indicador_selecionado]
TabelaDe(ind) ==
    DataFrame([i \in DOMAIN ind.colunas |-> ind.colunas[i].nome],
              [i \in DOMAIN ind.linhas |->
                  [c \in Nomes(ind) |->
                      IF c = "data" THEN ind.linhas[i].data
                      ELSE IF Numerica(ind, c) THEN ind.linhas[i].v
                      ELSE Txt]])

\* [col for col in df.columns if col not in ["data", "ano"]
\*      and pd.api.types.is_numeric_dtype(df[col])]
colunas_numericas(ind) ==
    SelectSeq(ind.colunas, LAMBDA c : c.nome \notin {"data", "ano"} /\ c.numerica)

\* Mutant: "iof" is looked for before "valor".
resolver_coluna_iof_primeiro(ind) ==
    IF ind.hint # "" /\ ind.hint \in Nomes(ind) THEN ind.hint
    ELSE IF "iof" \in Nomes(ind) THEN "iof"
    ELSE IF "valor" \in Nomes(ind) THEN "valor"
    ELSE IF "deficit" \in Nomes(ind) THEN "deficit"
    ELSE IF colunas_numericas(ind) # <<>> THEN colunas_numericas(ind)[1].nome
    ELSE ""

\* main(), lines 280-297: the value column of the indicator, "" for None.
resolver_coluna(ind) ==
    IF ind.hint # "" /\ ind.hint \in Nomes(ind) THEN ind.hint
    ELSE IF "valor" \in Nomes(ind) THEN "valor"
    ELSE IF "deficit" \in Nomes(ind) THEN "deficit"
    ELSE IF "iof" \in Nomes(ind) THEN "iof"
    ELSE IF colunas_numericas(ind) # <<>> THEN colunas_numericas(ind)[1].nome
    ELSE ""

\* The calendar date of a day number: day 1 is 30/12/2025, so that the
\* days of the model run over the end of a month and of a year.
DataDe(n) ==
    IF n <= 2 THEN [dia |-> 29 + n, mes |-> 12, ano |-> 2025]
    ELSE [dia |-> n - 2, mes |-> 1, ano |-> 2026]

\* strftime("%d/%m/%Y"): the string as the sequence of its character codes.
Digito(d) == 48 + d
strftime(n) ==
    LET t == DataDe(n)
    IN  <<Digito(t.dia \div 10), Digito(t.dia % 10), 47,
          Digito(t.mes \div 10), Digito(t.mes % 10), 47,
          Digito(t.ano \div 1000), Digito((t.ano \div 100) % 10),
          Digito((t.ano \div 10) % 10), Digito(t.ano % 10)>>

\* a >= b on Python strings: the first character that differs decides.
StrGE(a, b) ==
    \/ a = b
    \/ \E i \in 1..Len(a) :
          /\ i <= Len(b)
          /\ \A j \in 1..(i - 1) : a[j] = b[j]
          /\ a[i] > b[i]
    \/ Len(a) > Len(b) /\ \A j \in 1..Len(b) : a[j] = b[j]

\* main(), lines 347-351: the Data column is formatted, then the rows whose
\* formatted Data is >= today's formatted date are kept.  The rows are
\* reported by their day numbers.
tabela_futuro(prev, h) ==
    SelectSeq(prev.ds, LAMBDA d : StrGE(strftime(d), strftime(h)))

(***************************************************************************)
(* Inputs of the dashboard specifications.                                 *)
(***************************************************************************)
MaxCols == 3
NomesResolver == {"data", "ano", "valor", "deficit", "iof", "x", "z"}
ColunasDe(N) ==
    {[nome |-> n, numerica |-> b] : n \in N, b \in BOOLEAN} \ 
        ({[nome |-> "data", numerica |-> TRUE]}
            \cup {[nome |-> n, numerica |-> FALSE] : n \in N \ {"data", "x", "z"}})
Esquemas(N) ==
    {s \in SeqAte(ColunasDe(N), MaxCols) :
        Len(s) >= 1 /\ \A i, j \in DOMAIN s : s[i].nome = s[j].nome => i = j}
\* The column "data" already holds timestamps in the dashboard.
LinhasPainel == [data : {Cell("ts", d) : d \in Dias} \cup {NaT}, v : {Cell("num", 1), Null}]
LinhasFixas ==
    <<[data |-> Cell("ts", 1), v |-> Cell("num", 1)],
      [data |-> Cell("ts", 2), v |-> Cell("num", 1)]>>
Hints == {"", "iof", "x", "w"}
DiasHoje == 1..(MaxDay + MaxHorizon)

IndicadoresPainel ==
    {[colunas |-> c, linhas |-> l, hint |-> ""] :
        c \in Esquemas({"data", "valor"}), l \in SeqAte(LinhasPainel, MaxRows) \ {<<>>}}
IndicadoresResolver ==
    {[colunas |-> c, linhas |-> LinhasFixas, hint |-> h] :
        c \in Esquemas(NomesResolver), h \in Hints}

InitPainel(Inds) ==
    /\ pc = "botao"
    /\ tabela = DataFrameVazio
    /\ coluna_data = "data"
    /\ coluna_valor = ""
    /\ df_preparado = DataFrameVazio
    /\ log_preparo = "none"
    /\ df_repreparado = DataFrameVazio
    /\ entrada = DataFrameVazio
    /\ tipo_modelo = ""
    /\ modelo = ModeloNone
    /\ chamada = SemChamada
    /\ treinou = FALSE
    /\ config = ConfigPainel
    /\ treino_tentado = FALSE
    /\ indicador \in Inds
    /\ periodo_previsao \in Horizontes
    /\ previsor_criado = FALSE
    /\ etapas = SemEtapas
    /\ previsao = SemPrevisao
    /\ mensagens = {}
    /\ graficos = {}
    /\ hoje = 0
    /\ df_futuro = <<>>

InitDashboard == InitPainel(IndicadoresPainel)
InitResolver == InitPainel(IndicadoresResolver)

\* lines 280-299: the value column is resolved; when there is none an
\* error is shown and the forecast block is skipped.
ResolverColuna ==
    /\ pc = "botao"
    /\ coluna_valor' = resolver_coluna(indicador)
    /\ IF coluna_valor' = ""
       THEN mensagens' = mensagens \cup {MsgColuna} /\ pc' = "comparativo"
       ELSE mensagens' = mensagens /\ pc' = "resolvida"
    /\ UNCHANGED <<tabela, coluna_data, df_preparado, log_preparo, df_repreparado,
                   entrada>>
    /\ UNCHANGED varsMotor
    /\ UNCHANGED <<indicador, periodo_previsao, previsor_criado, etapas, previsao,
                   graficos, hoje, df_futuro>>

\* lines 302-310: the engine is constructed (tipo_modelo defaults to
\* 'prophet') and the table prepared under "data" and the resolved column.
PrepararPrevisor ==
    /\ pc = "resolvida"
    /\ previsor_criado' = TRUE
    /\ tipo_modelo' = "prophet"
    /\ modelo' = ModeloNone
    /\ \E r \in preparar_dados(TabelaDe(indicador), "data", coluna_valor) :
        /\ df_preparado' = r.df
        /\ log_preparo' = r.log
        /\ etapas' = [etapas EXCEPT !.preparo = IF empty(r.df) THEN "falha" ELSE "ok"]
    /\ pc' = "preparado"
    /\ UNCHANGED <<tabela, coluna_data, coluna_valor, df_repreparado, entrada>>
    /\ UNCHANGED <<chamada, treinou, config, treino_tentado>>
    /\ UNCHANGED <<indicador, periodo_previsao, previsao, mensagens, graficos, hoje,
                   df_futuro>>

\* lines 312 and 356-357: treinar on what preparar_dados returned; when it
\* returns False the training error is shown.
TreinarPrevisor ==
    /\ pc = "preparado"
    /\ \E r \in treinar(modelo, tipo_modelo, df_preparado) :
        /\ modelo' = r.modelo
        /\ chamada' = Chamada("treinar", Len(df_preparado.rows),
                              TemDuplicadas(df_preparado), 0, modelo, r)
        /\ treinou' = (r.ret = "True")
        /\ etapas' = [etapas EXCEPT !.treino = IF r.ret = "True" THEN "ok" ELSE "falha"]
        /\ IF r.ret = "True"
           THEN mensagens' = mensagens /\ pc' = "treinado"
           ELSE mensagens' = mensagens \cup {MsgTreino} /\ pc' = "comparativo"
    /\ treino_tentado' = (treino_tentado \/ ~(empty(df_preparado) \/ Len(df_preparado.rows) < 2))
    /\ UNCHANGED <<tipo_modelo, config>>
    /\ UNCHANGED varsNormalize
    /\ UNCHANGED <<indicador, periodo_previsao, previsor_criado, previsao, graficos,
                   hoje, df_futuro>>

\* lines 314-316 and 354-355: prever(periodo_previsao); when it returns
\* None the prediction error is shown.
GerarPrevisao ==
    /\ pc = "treinado"
    /\ \E r \in prever(modelo, tipo_modelo, periodo_previsao) :
        /\ modelo' = r.modelo
        /\ chamada' = Chamada("prever", 0, FALSE, periodo_previsao, modelo, r)
        /\ previsao' = r.previsao
        /\ etapas' = [etapas EXCEPT !.previsao = IF r.ret = "None" THEN "falha" ELSE "ok"]
        /\ IF r.ret = "None"
           THEN mensagens' = mensagens \cup {MsgPrevisao} /\ pc' = "comparativo"
           ELSE mensagens' = mensagens /\ pc' = "previsto"
    /\ UNCHANGED <<tipo_modelo, treinou, config, treino_tentado>>
    /\ UNCHANGED varsNormalize
    /\ UNCHANGED <<indicador, periodo_previsao, previsor_criado, graficos, hoje,
                   df_futuro>>

\* lines 318-330: both figures are built and those that are not None shown.
PlotarGraficos ==
    /\ pc = "previsto"
    /\ \E r1 \in plotar_previsao(modelo, tipo_modelo, previsao) :
       \E r2 \in plotar_componentes(r1.modelo, tipo_modelo, previsao) :
        /\ modelo' = r2.modelo
        /\ chamada' = Chamada("plotar_componentes", 0, FALSE, 0, r1.modelo, r2)
        /\ graficos' = {g \in {"previsao", "componentes"} :
                           \/ g = "previsao" /\ r1.ret = "Figure"
                           \/ g = "componentes" /\ r2.ret = "Figure"}
    /\ pc' = "plotado"
    /\ UNCHANGED <<tipo_modelo, treinou, config, treino_tentado>>
    /\ UNCHANGED varsNormalize
    /\ UNCHANGED <<indicador, periodo_previsao, previsor_criado, etapas, previsao,
                   mensagens, hoje, df_futuro>>

\* lines 333-353: the forecast table, filtered against today's date.
ExibirTabela ==
    /\ pc = "plotado"
    /\ \E h \in DiasHoje :
        /\ hoje' = h
        /\ df_futuro' = tabela_futuro(previsao, h)
    /\ pc' = "comparativo"
    /\ UNCHANGED varsNormalize
    /\ UNCHANGED varsMotor
    /\ UNCHANGED <<indicador, periodo_previsao, previsor_criado, etapas, previsao,
                   mensagens, graficos>>

\* lines 361-367: the section after the forecast block is rendered.
ExibirComparativo ==
    /\ pc = "comparativo"
    /\ pc' = "fim"
    /\ UNCHANGED varsNormalize
    /\ UNCHANGED varsMotor
    /\ UNCHANGED varsPainel

NextDashboard ==
    \/ ResolverColuna
    \/ PrepararPrevisor
    \/ TreinarPrevisor
    \/ GerarPrevisao
    \/ PlotarGraficos
    \/ ExibirTabela
    \/ ExibirComparativo

SpecDashboard == InitDashboard /\ [][NextDashboard]_vars
SpecResolver == InitResolver /\ [][NextDashboard]_vars

(***************************************************************************)
(* Claims about preparar_dados, checked under SpecNormalize.               *)
(***************************************************************************)
\* A row preparar_dados is meant to keep: a parseable date and a number.
LinhaValida(r) == r.data.k = "data" /\ r.valor.k = "num"
\* A row whose date cannot be parsed.
LinhaDataRuim(r) == r.data.k = "txt"
NumValidas(df) == Cardinality({i \in DOMAIN df.rows : LinhaValida(df.rows[i])})
NumDataRuim(df) == Cardinality({i \in DOMAIN df.rows : LinhaDataRuim(df.rows[i])})

\* The case of C5: the table is read by its own columns, some rows have an
\* unparseable date and every other row is valid.
C5_Caso ==
    /\ pc = "preparado"
    /\ coluna_data = "data" /\ coluna_valor = "valor"
    /\ NumDataRuim(tabela) >= 1
    /\ NumValidas(tabela) >= 1
    /\ \A i \in DOMAIN tabela.rows :
          LinhaDataRuim(tabela.rows[i]) \/ LinhaValida(tabela.rows[i])

\* C5 (as claimed): when some rows have an unparseable date and the others
\* are valid, preparar_dados drops exactly the bad rows: it returns all the
\* valid rows and does not fail as a whole.
C5_DropsOnlyMalformedRows ==
    C5_Caso =>
        /\ log_preparo = "info"
        /\ Len(df_preparado.rows) = NumValidas(tabela)
        /\ \A i \in DOMAIN df_preparado.rows : df_preparado.rows[i].ds.k = "ts"

\* Two row sequences hold the same rows, each as many times.
MesmasLinhas(a, b) ==
    /\ Len(a) = Len(b)
    /\ \E p \in [DOMAIN a -> DOMAIN a] : Injective(p) /\ Permuted(a, p) = b
DatasDistintas(rows) == \A i, j \in DOMAIN rows : rows[i].ds = rows[j].ds => i = j

\* C6 (as claimed): normalizing the result of preparar_dados again, by its
\* own columns ds and y, returns the same table: same rows, same order,
\* same column names.
C6_IdempotentExact ==
    pc = "repreparado" => df_repreparado = df_preparado

\* C6 (amended): normalizing a result again returns the same rows, in
\* ascending order of ds, under the same column names when the result has
\* rows, and exactly the same table when its timestamps are distinct; a
\* result without rows comes back as the table without columns.
C6_IdempotentUpToTiesAndEmpty ==
    pc = "repreparado" =>
        /\ Len(df_preparado.rows) = 0 => df_repreparado = DataFrameVazio
        /\ Len(df_preparado.rows) > 0 =>
              /\ df_repreparado.cols = df_preparado.cols
              /\ MesmasLinhas(df_preparado.rows, df_repreparado.rows)
              /\ Ascending(df_repreparado.rows)
              /\ DatasDistintas(df_preparado.rows) => df_repreparado = df_preparado

\* Witness of C6: a table that lost a row in the first pass and kept at
\* least two was normalized a second time.
C6_Witness ==
    /\ pc = "repreparado"
    /\ Len(df_preparado.rows) >= 2
    /\ Len(tabela.rows) > Len(df_preparado.rows)
    /\ df_preparado.rows[1].ds # df_preparado.rows[2].ds

\* C7: preparar_dados on an empty table returns the empty DataFrame and logs
\* a warning, not an error, whatever column names it is given.
C7_EmptyInputEmptyOutput ==
    (pc = "preparado" /\ empty(tabela)) =>
        df_preparado = DataFrameVazio /\ log_preparo = "warning"

\* Witness of C7: an empty table that has columns was prepared under a
\* value column name it does not have.
C7_Witness ==
    /\ pc = "preparado"
    /\ empty(tabela)
    /\ tabela.cols # <<>>
    /\ ~TemColuna(tabela, coluna_valor)

(***************************************************************************)
(* Claims about the dashboard, checked under SpecResolver (C8) and         *)
(* SpecDashboard (C9, C10).                                                *)
(***************************************************************************)
HintValido == indicador.hint # "" /\ indicador.hint \in Nomes(indicador)
\* Column i is numeric and is neither "data" nor "ano".
Candidata(i) ==
    indicador.colunas[i].numerica /\ indicador.colunas[i].nome \notin {"data", "ano"}
SemNomeFixo == ~HintValido /\ Nomes(indicador) \cap {"valor", "deficit", "iof"} = {}
\* Nothing of the forecast flow has run.
NadaTentado ==
    /\ ~previsor_criado
    /\ modelo = ModeloNone
    /\ chamada = SemChamada
    /\ log_preparo = "none"
    /\ etapas = SemEtapas
    /\ previsao = SemPrevisao

\* C8: the value column is resolved first match wins: the hint when it is
\* set and is a column, else "valor", else "deficit", else "iof", else the
\* first numeric column other than "data" and "ano"; else no column is
\* found, an error is shown and no engine is created nor anything prepared,
\* trained or predicted.  Columns valor, iof, data without a hint give
\* "valor".
C8_ResolvePrecedence ==
    pc # "botao" =>
        /\ HintValido => coluna_valor = indicador.hint
        /\ (~HintValido /\ "valor" \in Nomes(indicador)) => coluna_valor = "valor"
        /\ (~HintValido /\ "valor" \notin Nomes(indicador)
                /\ "deficit" \in Nomes(indicador)) => coluna_valor = "deficit"
        /\ (~HintValido /\ {"valor", "deficit"} \cap Nomes(indicador) = {}
                /\ "iof" \in Nomes(indicador)) => coluna_valor = "iof"
        /\ (SemNomeFixo /\ \E i \in DOMAIN indicador.colunas : Candidata(i)) =>
                \E i \in DOMAIN indicador.colunas :
                    /\ Candidata(i)
                    /\ \A j \in 1..(i - 1) : ~Candidata(j)
                    /\ coluna_valor = indicador.colunas[i].nome
        /\ (SemNomeFixo /\ \A i \in DOMAIN indicador.colunas : ~Candidata(i)) =>
                /\ coluna_valor = ""
                /\ mensagens = {MsgColuna}
                /\ NadaTentado
        /\ (Nomes(indicador) = {"valor", "iof", "data"} /\ indicador.hint = "") =>
                coluna_valor = "valor"

\* Witness of C8: the handler ran to its end on a table with the columns
\* valor, iof and data and no hint, and "valor" was the column used.
C8_Witness ==
    /\ pc = "fim"
    /\ Nomes(indicador) = {"valor", "iof", "data"}
    /\ indicador.hint = ""
    /\ coluna_valor = "valor"
    /\ previsor_criado

\* The stage of the forecast flow that failed first, "" when none did.
EtapaFalhou ==
    IF etapas.preparo = "falha" THEN "preparo"
    ELSE IF etapas.treino = "falha" THEN "treino"
    ELSE IF etapas.previsao = "falha" THEN "previsao"
    ELSE ""
\* The stage a message of the dashboard names.
EtapaDe(m) ==
    IF m = MsgTreino THEN "treino" ELSE IF m = MsgPrevisao THEN "previsao" ELSE ""

\* C9 (as claimed): when a stage of the forecast flow fails, a message is
\* shown that names the stage that failed (data preparation, training or
\* prediction), and the rest of the page is rendered.
C9_MessageNamesFailedStage ==
    (pc = "fim" /\ EtapaFalhou # "") =>
        \E m \in mensagens : EtapaDe(m) = EtapaFalhou

\* C10 (as claimed): the forecast table holds exactly the rows of the
\* forecast dated today or later.
C10_TableHoldsFutureRows ==
    (pc = "fim" /\ hoje # 0) =>
        df_futuro = SelectSeq(previsao.ds, LAMBDA d : d >= hoje)


(***************************************************************************)
(* Claims about the engine's failure values and its frame (Spec).          *)
(***************************************************************************)
\* The value each operation returns when it reports a failure: an empty
\* table from preparar_dados, False from treinar, None from the others.
ValorDeFalha ==
    CASE chamada.op = "preparar_dados" ->
            chamada.ret = "DataFrame" /\ chamada.linhas = 0
      [] chamada.op = "treinar" -> chamada.ret = "False"
      [] OTHER -> chamada.ret = "None"

\* C11: no call of preparar_dados, treinar, prever, plotar_previsao or
\* plotar_componentes lets an exception reach its caller, whatever the
\* engine holds and whatever table, series, horizon or forecast it is
\* given; a call that failed returned its failure value (an empty table,
\* False, or None).
C11_NoExceptionEscapes ==
    chamada.op # "" =>
        /\ ~chamada.raised
        /\ chamada.erro # "" => ValorDeFalha

\* Witness of C11: fit raised inside treinar, and treinar returned False.
C11_Witness ==
    /\ chamada.op = "treinar"
    /\ chamada.fit_falhou
    /\ chamada.ret = "False"
    /\ ~chamada.raised

\* C14: on an engine whose tipo_modelo is not 'prophet', treinar on a
\* series of at least 2 rows returns False for the unsupported kind, raises
\* nothing and binds no model, and every prever, plotar_previsao and
\* plotar_componentes on that engine returns None.
C14_UnsupportedKindNeverTrains ==
    tipo_modelo # "prophet" =>
        /\ modelo = ModeloNone
        /\ ~chamada.raised
        /\ (chamada.op = "treinar" /\ chamada.linhas >= 2) =>
              /\ chamada.ret = "False"
              /\ chamada.erro = "UnsupportedModelKind"
              /\ ~chamada.fit_chamado
        /\ chamada.op \in {"prever", "plotar_previsao", "plotar_componentes"} =>
              chamada.ret = "None"

\* Witness of C14: prever on an engine of another kind, after a treinar on
\* it that got past the row guard.
C14_Witness ==
    /\ tipo_modelo # "prophet"
    /\ treino_tentado
    /\ chamada.op = "prever"
    /\ chamada.ret = "None"

\* C15: through any sequence of treinar calls the model prever uses is the
\* one of the most recent treinar that returned True: a treinar that
\* returns True binds a model fit on the series it was given, and a
\* treinar that returns False (too few rows, unsupported kind, or a fit
\* that raised) leaves self.modelo as it was, so that once some treinar
\* has returned True the engine holds a fit model.
C15_ModelIsLastSuccessfulTrain ==
    /\ chamada.op = "treinar" =>
          IF chamada.ret = "True"
          THEN modelo.ajustado /\ Len(modelo.history) = chamada.linhas
          ELSE chamada.modelo_antes.ajustado => modelo = chamada.modelo_antes
    /\ treinou => modelo.ajustado

\* C16: only treinar changes the engine: a call of preparar_dados, prever,
\* plotar_previsao or plotar_componentes, whether it succeeds or fails,
\* leaves self.modelo, self.tipo_modelo and the five configuration fields
\* as they were; preparar_dados leaves the table it was handed as it was;
\* and no call takes self.modelo from an object back to None.
C16_OnlyTreinarChangesEngine ==
    [][/\ chamada'.op \in {"preparar_dados", "prever", "plotar_previsao",
                           "plotar_componentes"} =>
             /\ modelo' = modelo
             /\ tipo_modelo' = tipo_modelo
             /\ config' = config
       /\ chamada'.op = "preparar_dados" => tabela' = entrada'
       /\ modelo # ModeloNone => modelo' # ModeloNone]_vars

\* Witness of C16: prever has failed on an engine that holds a fit model,
\* after preparar_dados was handed a table with rows; the model is the one
\* held before the call and the table is as it was handed over.
C16_Witness ==
    /\ chamada.op = "prever"
    /\ chamada.ret = "None"
    /\ modelo.ajustado
    /\ modelo = chamada.modelo_antes
    /\ ~empty(entrada)
    /\ tabela = entrada

(***************************************************************************)
(* Claims about what preparar_dados returns (SpecNormalize).               *)
(***************************************************************************)
\* The table has rows and columns, and one of the two names given is not
\* among its columns.
ColunaAusente ==
    /\ ~empty(tabela)
    /\ ~TemColuna(tabela, coluna_data) \/ ~TemColuna(tabela, coluna_valor)
\* What preparar_dados returns, under the same two names, for a table
\* with no rows: the valid empty series.
SeriesDeEntradaVazia ==
    {r.df : r \in preparar_dados(DataFrameVazio, coluna_data, coluna_valor)}

\* C12: when the date column name or the value column name is not a
\* column of a non-empty table, preparar_dados reports a failure, and what
\* it returns differs from the valid empty series, so that its caller can
\* tell the two apart.
C12_MissingColumnIsReported ==
    (pc = "preparado" /\ ColunaAusente) =>
        /\ log_preparo = "error"
        /\ df_preparado \notin SeriesDeEntradaVazia

\* C13: every series preparar_dados returns holds only rows whose value is
\* a number (a value that is not one is dropped like a missing value, with
\* the rows missing the date or the value), in ascending timestamp order.
C13_OnlyNumericRowsAscending ==
    pc = "preparado" =>
        /\ \A i \in DOMAIN df_preparado.rows :
              /\ ~isna(df_preparado.rows[i].ds)
              /\ df_preparado.rows[i].y.k = "num"
        /\ Ascending(df_preparado.rows)

====
